---- MODULE Spec2Model ----
(***************************************************************************)
(* Model of streetView_collector.py: the batch client that, for each       *)
(* selected row of a coordinate CSV, issues four Street View fetches,      *)
(* writes the images, appends to the success / failure logs and writes a   *)
(* horizontal composite of the images it got.                              *)
(*                                                                         *)
(* The file system under the base path and the two logs persist across     *)
(* runs of the program; everything else is local to one run of main().     *)
(***************************************************************************)
EXTENDS Integers, Sequences, FiniteSets, TLC

\* ------------------------------------------------------------------ bounds
MaxRows == 2          \* rows in the CSV file: 0..MaxRows
MaxArg == 2           \* largest --start_row / --end_row tried
MaxNeg == 2           \* most negative --start_row / --end_row tried: -MaxNeg
MaxRuns == 2          \* invocations of the program on the same base path
MaxLog == 8           \* a further run starts only while the records all runs
                      \* can append (four per selected row and run) fit in this

\* ------------------------------------------------------- program constants
ImageSide == 512      \* size=512x512 in the request URL

\* ------------------------------------------------------------------ helpers
Max(a, b) == IF a >= b THEN a ELSE b

Min(a, b) == IF a <= b THEN a ELSE b

\* HEADINGS, in the insertion order the dict is iterated in.
HEADINGS ==
    << <<"left", 270>>, <<"front", 0>>, <<"right", 90>>, <<"back", 180>> >>

NumDirections == Len(HEADINGS)

\* The CSV's data rows: row i (zero-based) holds these coordinates.
Latitude(i) == 40 + i

Longitude(i) == -73 - i

\* Python's clamping of one slice bound against a list of length n.
SliceBound(i, n) == IF i < 0 THEN Max(i + n, 0) ELSE Min(i, n)

\* list(zip(df["Latitude"], df["Longitude"])), as a 1-based sequence.
LatLonPairs(n) == [i \in 1..n |-> <<Latitude(i - 1), Longitude(i - 1)>>]

\* enumerate(lat_lon_pairs[start:end + 1], start=start) with the stop forgotten
\* to be made inclusive.
EnumeratedSlice_ExclusiveEnd(pairs, start, end) ==
    LET n == Len(pairs)
        lo == SliceBound(start, n)
        hi == SliceBound(end, n)
        len == Max(hi - lo, 0)
    IN  [k \in 1..len |-> [num |-> start + k - 1, index |-> lo + k - 1,
                            lat |-> pairs[lo + k][1], lon |-> pairs[lo + k][2]]]

\* enumerate(lat_lon_pairs[start:end + 1], start=start): the k-th element is
\* numbered start + k - 1 and is the list's element at zero-based lo + k - 1.
EnumeratedSlice(pairs, start, end) ==
    LET n == Len(pairs)
        lo == SliceBound(start, n)
        hi == SliceBound(end + 1, n)
        len == Max(hi - lo, 0)
    IN  [k \in 1..len |-> [num |-> start + k - 1, index |-> lo + k - 1,
                            lat |-> pairs[lo + k][1], lon |-> pairs[lo + k][2]]]

\* f"p{num}"
Label(num) == <<"p", num>>

\* os.path.join(OUTPUT_DIR, f"p{num}_{direction}_{lat}_{lon}.jpg")
ImagePath(row, direction) ==
    <<"street_view_images", Label(row.num), direction, row.lat, row.lon>>

\* os.path.join(OUTPUT_CONC_DIR, f"p{num}_concate_{lat}_{lon}.jpg")
CompositePath(row) ==
    <<"street_view_concate", Label(row.num), "concate", row.lat, row.lon>>

\* [f"p{num}", direction, lat, lon]
LogRecord(row, direction) == <<Label(row.num), direction, row.lat, row.lon>>

\* open(filename, 'wb').write(content), open(..., 'a') never: the file at the
\* path is created or replaced, every other file is left alone.
WriteFile(fs, path, content) ==
    {f \in fs : f.path # path} \cup {[path |-> path, content |-> content]}

\* concatenate_images advancing the offset by the height.
RECURSIVE PasteAll_ByHeight(_, _, _)
PasteAll_ByHeight(img_list, i, x_offset) ==
    IF i > Len(img_list) THEN <<>>
    ELSE <<[x |-> x_offset, y |-> 0, img |-> img_list[i]]>>
         \o PasteAll_ByHeight(img_list, i + 1, x_offset + img_list[i].height)

\* The paste loop of concatenate_images from its i-th image on, x_offset
\* being the loop's running offset: the pastes made, in order.
RECURSIVE PasteAll(_, _, _)
PasteAll(img_list, i, x_offset) ==
    IF i > Len(img_list) THEN <<>>
    ELSE <<[x |-> x_offset, y |-> 0, img |-> img_list[i]]>>
         \o PasteAll(img_list, i + 1, x_offset + img_list[i].width)

\* sum(img.width for img in img_list)
RECURSIVE TotalWidth(_)
TotalWidth(img_list) ==
    IF img_list = <<>> THEN 0
    ELSE Head(img_list).width + TotalWidth(Tail(img_list))

\* max(img.height for img in img_list); the list is not empty.
RECURSIVE MaxHeight(_)
MaxHeight(img_list) ==
    IF Len(img_list) = 1 THEN Head(img_list).height
    ELSE Max(Head(img_list).height, MaxHeight(Tail(img_list)))

concatenate_images(img_list) ==
    [width |-> TotalWidth(img_list), height |-> MaxHeight(img_list),
     pastes |-> PasteAll(img_list, 1, 0)]

\* ---------------------------------------------------------------- variables
VARIABLES
    columns,            \* the CSV header's column names
    nRows,              \* number of data rows of the CSV
    start_row, end_row, \* args.start_row, args.end_row
    visualize,          \* args.visualize
    sizes,              \* the sizes of the images the endpoint serves
    dirs,               \* directories under the base path
    images,             \* files under street_view_images
    composites,         \* files under street_view_concate
    log_add,            \* download_log_add.csv, one record per line
    log_fail,           \* download_log_fail.csv, one record per line
    pc,                 \* where main() is
    exc,                \* the uncaught exception that ended the run, if any
    rows,               \* the enumerated slice the for loop iterates
    rowPos,             \* position of the current row in rows
    dirPos,             \* position of the next direction in HEADINGS
    img_list,           \* main's img_list
    failed_downloads,   \* main's failed_downloads
    failPos,            \* position of the failure-logging loop
    concatenated_img,   \* main's concatenated_img: <<>> while unbound
    run,                \* number of the current run of the program
    processed,          \* the rows this run has started, in order
    outcome,            \* the current row's fetches: <<direction, result>>, in order
    events,             \* the current row's effects: <<kind, direction>>, in order
    everOk              \* composite paths of rows with a successful fetch in some run

env == <<columns, nRows, start_row, end_row, visualize, sizes>>

fsys == <<dirs, images, composites, log_add, log_fail>>

locals == <<rows, rowPos, dirPos, img_list, failed_downloads, failPos,
            concatenated_img>>

vars == <<env, fsys, pc, exc, locals, run, processed, outcome, events, everOk>>

OUTPUT_DIR == "street_view_images"

OUTPUT_CONC_DIR == "street_view_concate"

ColumnNames == {"Latitude", "Longitude"}

RequestedSize == <<ImageSide, ImageSide>>

OtherSize == <<ImageSide + 128, ImageSide - 112>>

\* The state of a run at the entry of main().
FreshLocals ==
    /\ rows = <<>>
    /\ rowPos = 1
    /\ dirPos = 1
    /\ img_list = <<>>
    /\ failed_downloads = <<>>
    /\ failPos = 1
    /\ concatenated_img = <<>>

InitCommon ==
    /\ visualize \in BOOLEAN
    /\ dirs = {}
    /\ images = {}
    /\ composites = {}
    /\ log_add = <<>>
    /\ log_fail = <<>>
    /\ pc = "makedirs"
    /\ exc = "none"
    /\ FreshLocals
    /\ run = 1
    /\ processed = <<>>
    /\ outcome = <<>>
    /\ events = <<>>
    /\ everOk = {}

\* Any header, any row range, on an endpoint serving the requested size.
Init ==
    /\ columns \in SUBSET ColumnNames
    /\ nRows \in 0..MaxRows
    /\ start_row \in (-MaxNeg)..MaxArg
    /\ end_row \in (-MaxNeg)..MaxArg
    /\ sizes = {RequestedSize}
    /\ InitCommon

\* A one-row input on an endpoint that serves images of differing sizes.
InitConcat ==
    /\ columns \in SUBSET ColumnNames
    /\ nRows = 1
    /\ start_row = 0
    /\ end_row \in 0..1
    /\ sizes = {RequestedSize, OtherSize}
    /\ InitCommon

\* ------------------------------------------------------------------ actions
CurrentRow == rows[rowPos]

Direction == HEADINGS[dirPos][1]

\* The for loop over HEADINGS.items() moves on to the next direction, or past
\* the last one to the failure-logging loop.
AfterFetch ==
    /\ dirPos' = dirPos + 1
    /\ pc' = IF dirPos = NumDirections THEN "logfail" ELSE "fetch"

\* os.makedirs(OUTPUT_DIR), os.makedirs(OUTPUT_CONC_DIR), exist_ok=True.
MakeDirs ==
    /\ pc = "makedirs"
    /\ dirs' = dirs \cup {OUTPUT_DIR, OUTPUT_CONC_DIR}
    /\ pc' = "load"
    /\ UNCHANGED <<env, images, composites, log_add, log_fail, exc, locals,
                   run, processed, outcome, events, everOk>>

MissingColumns_BothAbsent ==
    "Latitude" \notin columns /\ "Longitude" \notin columns

MissingColumns == "Latitude" \notin columns \/ "Longitude" \notin columns

\* pd.read_csv, then the column check raising ValueError.
LoadCsvMissingColumns ==
    /\ pc = "load"
    /\ MissingColumns
    /\ pc' = "aborted"
    /\ exc' = "ValueError"
    /\ UNCHANGED <<env, fsys, locals, run, processed, outcome, events, everOk>>

\* pd.read_csv, the column check passing, and the slice the loop iterates.
LoadCsv ==
    /\ pc = "load"
    /\ ~MissingColumns
    /\ rows' = EnumeratedSlice(LatLonPairs(nRows), start_row, end_row)
    /\ rowPos' = 1
    /\ pc' = "row"
    /\ UNCHANGED <<env, fsys, exc, dirPos, img_list, failed_downloads, failPos,
                   concatenated_img, run, processed, outcome, events, everOk>>

\* The for loop takes its next row: img_list, failed_downloads = [], [].
BeginRow ==
    /\ pc = "row"
    /\ rowPos <= Len(rows)
    /\ img_list' = <<>>
    /\ failed_downloads' = <<>>
    /\ dirPos' = 1
    /\ failPos' = 1
    /\ processed' = Append(processed, CurrentRow)
    /\ outcome' = <<>>
    /\ events' = <<>>
    /\ pc' = "fetch"
    /\ UNCHANGED <<env, fsys, exc, rows, rowPos, concatenated_img, run, everOk>>

\* The for loop is exhausted: "Process completed".
Finish ==
    /\ pc = "row"
    /\ rowPos > Len(rows)
    /\ pc' = "done"
    /\ UNCHANGED <<env, fsys, exc, locals, run, processed, outcome, events,
                   everOk>>

\* download_image on a 200 response whose bytes decode: the file is written,
\* the image appended to img_list and the success record logged.
Fetch200 ==
    /\ pc = "fetch"
    /\ \E s \in sizes :
        LET img == [width |-> s[1], height |-> s[2]] IN
        /\ images' = WriteFile(images, ImagePath(CurrentRow, Direction), img)
        /\ img_list' = Append(img_list, img)
    /\ log_add' = Append(log_add, LogRecord(CurrentRow, Direction))
    /\ outcome' = Append(outcome, <<Direction, "ok">>)
    /\ events' = events \o << <<"get", Direction>>, <<"write", Direction>>,
                              <<"log_add", Direction>> >>
    /\ everOk' = everOk \cup {CompositePath(CurrentRow)}
    /\ AfterFetch
    /\ UNCHANGED <<env, dirs, composites, log_fail, exc, rows, rowPos,
                   failed_downloads, failPos, concatenated_img, run, processed>>

\* A failed fetch logged to the failure log at once instead of being queued.
FetchNon200_LoggedInline ==
    /\ pc = "fetch"
    /\ failed_downloads' = Append(failed_downloads, LogRecord(CurrentRow, Direction))
    /\ log_fail' = Append(log_fail, LogRecord(CurrentRow, Direction))
    /\ failPos' = failPos + 1
    /\ outcome' = Append(outcome, <<Direction, "non200">>)
    /\ events' = events \o << <<"get", Direction>>, <<"log_fail", Direction>> >>
    /\ AfterFetch
    /\ UNCHANGED <<env, dirs, images, composites, log_add, exc, rows, rowPos,
                   img_list, concatenated_img, run, processed, everOk>>

\* download_image on a response whose status is not 200: None comes back and
\* the descriptor is queued in failed_downloads.
FetchNon200 ==
    /\ pc = "fetch"
    /\ failed_downloads' = Append(failed_downloads, LogRecord(CurrentRow, Direction))
    /\ outcome' = Append(outcome, <<Direction, "non200">>)
    /\ events' = Append(events, <<"get", Direction>>)
    /\ AfterFetch
    /\ UNCHANGED <<env, fsys, exc, rows, rowPos, img_list, failPos,
                   concatenated_img, run, processed, everOk>>

\* requests.get raises (no connection, DNS failure, timeout): nothing catches
\* it, in download_image or in main.
FetchNetworkError ==
    /\ pc = "fetch"
    /\ outcome' = Append(outcome, <<Direction, "neterr">>)
    /\ events' = Append(events, <<"get", Direction>>)
    /\ exc' = "ConnectionError"
    /\ pc' = "aborted"
    /\ UNCHANGED <<env, fsys, locals, run, processed, everOk>>

\* download_image on a 200 response whose bytes are no image: the file is
\* written, then Image.open raises and nothing catches it.
Fetch200Undecodable ==
    /\ pc = "fetch"
    /\ images' = WriteFile(images, ImagePath(CurrentRow, Direction),
                           [width |-> 0, height |-> 0])
    /\ outcome' = Append(outcome, <<Direction, "undecodable">>)
    /\ events' = events \o << <<"get", Direction>>, <<"write", Direction>> >>
    /\ exc' = "UnidentifiedImageError"
    /\ pc' = "aborted"
    /\ UNCHANGED <<env, dirs, composites, log_add, log_fail, locals, run,
                   processed, everOk>>

\* One turn of: for fail in failed_downloads: log_to_csv(LOG_FILE_FAIL, fail).
LogFail ==
    /\ pc = "logfail"
    /\ failPos <= Len(failed_downloads)
    /\ log_fail' = Append(log_fail, failed_downloads[failPos])
    /\ failPos' = failPos + 1
    /\ events' = Append(events, <<"log_fail", failed_downloads[failPos][2]>>)
    /\ UNCHANGED <<env, dirs, images, composites, log_add, pc, exc, rows,
                   rowPos, dirPos, img_list, failed_downloads,
                   concatenated_img, run, processed, outcome, everOk>>

\* The failure loop is exhausted and img_list is empty: warn and continue.
SkipRow ==
    /\ pc = "logfail"
    /\ failPos > Len(failed_downloads)
    /\ img_list = <<>>
    /\ rowPos' = rowPos + 1
    /\ pc' = "row"
    /\ UNCHANGED <<env, fsys, exc, rows, dirPos, img_list, failed_downloads,
                   failPos, concatenated_img, run, processed, outcome, events,
                   everOk>>

\* The failure loop is exhausted and img_list is not empty.
AfterLogging ==
    /\ pc = "logfail"
    /\ failPos > Len(failed_downloads)
    /\ img_list # <<>>
    /\ pc' = IF visualize THEN "show" ELSE "concat"
    /\ UNCHANGED <<env, fsys, exc, locals, run, processed, outcome, events,
                   everOk>>

\* show_images_side_by_side: plt.show(block=True) returns when the window is
\* closed.
ShowImages ==
    /\ pc = "show"
    /\ pc' = "concat"
    /\ UNCHANGED <<env, fsys, exc, locals, run, processed, outcome, events,
                   everOk>>

\* concatenate_images(img_list) and the save of its (always truthy) result.
Concatenate ==
    /\ pc = "concat"
    /\ concatenated_img' = <<concatenate_images(img_list)>>
    /\ composites' = WriteFile(composites, CompositePath(CurrentRow),
                               concatenate_images(img_list))
    /\ events' = Append(events, <<"composite", "all">>)
    /\ rowPos' = rowPos + 1
    /\ pc' = "row"
    /\ UNCHANGED <<env, dirs, images, log_add, log_fail, exc, rows, dirPos,
                   img_list, failed_downloads, failPos, run, processed,
                   outcome, everOk>>

\* The program is started again with the same arguments on the same base path.
Rerun ==
    /\ pc \in {"done", "aborted"}
    /\ run < MaxRuns
    /\ (run + 1) * NumDirections * Len(rows) <= MaxLog
    /\ run' = run + 1
    /\ pc' = "makedirs"
    /\ exc' = "none"
    /\ rows' = <<>>
    /\ rowPos' = 1
    /\ dirPos' = 1
    /\ img_list' = <<>>
    /\ failed_downloads' = <<>>
    /\ failPos' = 1
    /\ concatenated_img' = <<>>
    /\ processed' = <<>>
    /\ outcome' = <<>>
    /\ events' = <<>>
    /\ UNCHANGED <<env, fsys, everOk>>

Next ==
    \/ MakeDirs
    \/ LoadCsvMissingColumns
    \/ LoadCsv
    \/ BeginRow
    \/ Finish
    \/ Fetch200
    \/ FetchNon200
    \/ FetchNetworkError
    \/ Fetch200Undecodable
    \/ LogFail
    \/ SkipRow
    \/ AfterLogging
    \/ ShowImages
    \/ Concatenate
    \/ Rerun

Spec == Init /\ [][Next]_vars

SpecConcat == InitConcat /\ [][Next]_vars

\* ------------------------------------------------------- claim vocabulary
Range(seq) == {seq[i] : i \in DOMAIN seq}

DirectionOrder == <<"left", "front", "right", "back">>

DirIndex(d) == CHOOSE i \in DOMAIN DirectionOrder : DirectionOrder[i] = d

\* The positions of the events of one kind, and their directions in order.
EventPositions(kind) == {i \in DOMAIN events : events[i][1] = kind}

EventCount(kind) == Cardinality(EventPositions(kind))

EventDirs(kind) == {events[i][2] : i \in EventPositions(kind)}

\* The directions of the current row whose fetch ended in one of the results.
DirsWith(results) == {o[1] : o \in {q \in Range(outcome) : q[2] \in results}}

SucceededDirs == DirsWith({"ok"})

FailedDirs == DirsWith({"non200", "neterr", "undecodable"})

\* The program has left the last row it started: it is between rows, or ended.
RowEnded == pc \in {"row", "done", "aborted"} /\ processed # <<>>

RunEnded == pc \in {"done", "aborted"}

LastRow == processed[Len(processed)]

\* The images of the succeeded directions, in left, front, right, back order.
RECURSIVE ImagesInOrder(_)
ImagesInOrder(i) ==
    IF i > Len(DirectionOrder) THEN <<>>
    ELSE (IF DirectionOrder[i] \in SucceededDirs
            THEN LET f == CHOOSE g \in images :
                              g.path = ImagePath(LastRow, DirectionOrder[i])
                 IN  <<f.content>>
            ELSE <<>>) \o ImagesInOrder(i + 1)

\* Sum of the widths of the first k images of a list.
RECURSIVE WidthOfFirst(_, _)
WidthOfFirst(list, k) ==
    IF k = 0 THEN 0 ELSE WidthOfFirst(list, k - 1) + list[k].width

\* The rows of an n-row file whose zero-based index lies in [s, e], by index.
IntervalRows(s, e, n) ==
    LET lo == Max(s, 0)
        hi == Min(e, n - 1)
    IN  [k \in 1..Max(hi - lo + 1, 0) |->
            [num |-> lo + k - 1, index |-> lo + k - 1,
             lat |-> Latitude(lo + k - 1), lon |-> Longitude(lo + k - 1)]]

\* An ordinary row range: 0 <= start_row <= end_row.
OrdinaryRange == start_row >= 0 /\ end_row >= start_row

IsPrefix(a, b) == Len(a) <= Len(b) /\ \A i \in DOMAIN a : a[i] = b[i]

\* ------------------------------------------------------------------ claims

\* C1: when the program leaves a row it started (for the next row, or by
\* ending), the records appended for that row to the two logs number exactly
\* four, and the row's composite was written iff a direction succeeded
\* (stated for ordinary row ranges).
C1_FourRecordsPerRow ==
    (OrdinaryRange /\ RowEnded) =>
        /\ EventCount("log_add") + EventCount("log_fail") = 4
        /\ (EventCount("composite") = 1) <=> (SucceededDirs # {})

\* C2: a fetch that ends in a non-200 response or a network failure raises
\* nothing to main: the run is not ended by it, and once the row is left the
\* failed direction has its failure record and no image in the composite
\* (stated for ordinary row ranges).
C2_FetchFailureNeverAborts ==
    /\ OrdinaryRange => exc # "ConnectionError"
    /\ (OrdinaryRange /\ RowEnded) =>
        \A d \in DirsWith({"non200", "neterr"}) :
            /\ d \in EventDirs("log_fail")
            /\ d \notin EventDirs("log_add")
            /\ d \notin EventDirs("write")

\* C3: a run on a file lacking Latitude or Longitude that has aborted has
\* created nothing at all under the base path.
C3_MissingColumnsLeavesNothing ==
    (pc = "aborted" /\ ~(ColumnNames \subseteq columns)) =>
        /\ dirs = {}
        /\ images = {} /\ composites = {}
        /\ log_add = <<>> /\ log_fail = <<>>
        /\ events = <<>> /\ processed = <<>>

\* C3 amended: on a file lacking Latitude or Longitude the run gets no further
\* than the column check, where it aborts with ValueError; no fetch is issued,
\* no record is logged and no file is written, and the only thing created is
\* the pair of output directories.
C3_MissingColumnsLeavesOnlyDirs ==
    ~(ColumnNames \subseteq columns) =>
        /\ pc \in {"makedirs", "load", "aborted"}
        /\ pc = "aborted" => exc = "ValueError"
        /\ images = {} /\ composites = {}
        /\ log_add = <<>> /\ log_fail = <<>>
        /\ events = <<>> /\ processed = <<>> /\ rows = <<>>
        /\ dirs \subseteq {OUTPUT_DIR, OUTPUT_CONC_DIR}
        /\ (pc = "aborted" \/ run > 1) => dirs = {OUTPUT_DIR, OUTPUT_CONC_DIR}

C3_Witness ==
    /\ pc = "aborted"
    /\ exc = "ValueError"
    /\ columns = {"Latitude"}
    /\ dirs = {OUTPUT_DIR, OUTPUT_CONC_DIR}

\* C4: whatever start_row, end_row and the file's length, a run that reaches
\* the end of its loop has processed exactly the rows whose zero-based index
\* lies in [start_row, end_row], once each, by increasing index, each
\* numbered by its index.
C4_RowsAreTheInterval ==
    pc = "done" => processed = IntervalRows(start_row, end_row, nRows)

\* C4 amended: for start_row >= 0 and end_row >= -1 the rows a run starts are,
\* in order, the rows whose zero-based index lies in [start_row, end_row],
\* each numbered by its index and started once; a run that reaches the end of
\* its loop has started all of them, and every record it logged carries the
\* label of one of them.
C4_RowsAreTheIntervalNonNegative ==
    (start_row >= 0 /\ end_row >= -1) =>
        LET want == IntervalRows(start_row, end_row, nRows) IN
        /\ IsPrefix(processed, want)
        /\ pc = "done" => processed = want
        /\ \A r \in Range(log_add) \cup Range(log_fail) :
                \E w \in Range(want) : r[1] = Label(w.index)
        /\ (start_row = end_row /\ start_row < nRows /\ pc = "done")
                => Len(processed) = 1
        /\ (start_row > nRows /\ ColumnNames \subseteq columns)
                => (processed = <<>> /\ exc = "none")

C4_Witness ==
    /\ pc = "done"
    /\ start_row = 1 /\ end_row = 1
    /\ Len(processed) = 1
    /\ processed[1].index = 1
    /\ Len(log_add) + Len(log_fail) = 4

\* C5: when the program leaves a row, exactly the succeeded directions have an
\* image file written and a success record, exactly the failed directions have
\* a failure record, and with a success the composite is made of exactly the
\* succeeded images in left, front, right, back order (stated for ordinary
\* row ranges).
C5_PerDirectionEffects ==
    (OrdinaryRange /\ RowEnded) =>
        /\ EventDirs("write") = SucceededDirs
        /\ EventDirs("log_add") = SucceededDirs
        /\ EventDirs("log_fail") = FailedDirs
        /\ EventCount("log_add") = Cardinality(SucceededDirs)
        /\ EventCount("log_fail") = Cardinality(FailedDirs)
        /\ SucceededDirs # {} =>
            \E c \in composites :
                /\ c.path = CompositePath(LastRow)
                /\ Len(c.content.pastes) = Cardinality(SucceededDirs)
                /\ \A i \in DOMAIN c.content.pastes :
                        c.content.pastes[i].img = ImagesInOrder(1)[i]

\* C6: after N runs of the same row range the two logs hold N x 4 x (rows
\* selected per run) records in all, whatever the fetches did (stated for
\* ordinary row ranges).
C6_LogsGrowByFourPerRowPerRun ==
    (OrdinaryRange /\ RunEnded) =>
        Len(log_add) + Len(log_fail) = run * 4 * Len(rows)

\* C7: concatenate_images is never called on an empty list, and its result is
\* as wide as the widths' sum and as high as the highest image, the i-th
\* image pasted at y = 0 and at x = the sum of the widths before it.
C7_ConcatenateGeometry ==
    /\ pc = "concat" => img_list # <<>>
    /\ EventCount("composite") = 1 =>
        LET c == concatenated_img[1]
            n == Len(img_list)
        IN  /\ n >= 1
            /\ c.width = WidthOfFirst(img_list, n)
            /\ \A i \in 1..n : c.height >= img_list[i].height
            /\ \E i \in 1..n : c.height = img_list[i].height
            /\ Len(c.pastes) = n
            /\ \A i \in 1..n :
                /\ c.pastes[i].img = img_list[i]
                /\ c.pastes[i].y = 0
                /\ c.pastes[i].x = WidthOfFirst(img_list, i - 1)
                /\ c.pastes[i].x + img_list[i].width <= c.width
            /\ [path |-> CompositePath(LastRow), content |-> c] \in composites

C7_Witness ==
    /\ EventCount("composite") = 1
    /\ Len(img_list) = 3
    /\ img_list[1].width # img_list[1].height
    /\ img_list[2].height > img_list[1].height
    /\ concatenated_img[1].pastes[3].x = img_list[1].width + img_list[2].width

\* C8: within a row the fetches are issued in the order left, front, right,
\* back; a success record follows its fetch before any later fetch; failure
\* records come only after all four fetches, in direction order; the
\* composite comes only after every failure record of the row.
C8_RowEventOrder ==
    LET gets == EventPositions("get")
        fails == EventPositions("log_fail")
        adds == EventPositions("log_add")
    IN  /\ \A i \in gets :
             events[i][2] = DirectionOrder[Cardinality({j \in gets : j <= i})]
        /\ \A i \in adds :
             /\ \E j \in gets : j < i /\ events[j][2] = events[i][2]
             /\ \A j \in gets : j < i => DirIndex(events[j][2]) <= DirIndex(events[i][2])
        /\ \A j \in gets : \A o \in Range(outcome) :
             (o[2] = "ok" /\ DirIndex(o[1]) < DirIndex(events[j][2]))
                => \E i \in adds : i < j /\ events[i][2] = o[1]
        /\ \A i \in fails :
             /\ Cardinality({j \in gets : j < i}) = 4
             /\ \A j \in fails :
                  j < i => DirIndex(events[j][2]) < DirIndex(events[i][2])
             /\ events[i][2] \in DirsWith({"non200"})
        /\ \A i \in EventPositions("composite") :
             /\ \A j \in gets \cup fails \cup adds : j < i
             /\ EventDirs("log_fail") = DirsWith({"non200"})
        /\ pc \in {"show", "concat"} =>
             /\ failPos = Len(failed_downloads) + 1
             /\ Len(log_fail) >= Len(failed_downloads)
             /\ \A k \in DOMAIN failed_downloads :
                  log_fail[Len(log_fail) - Len(failed_downloads) + k]
                      = failed_downloads[k]

C8_Witness ==
    /\ EventCount("composite") = 1
    /\ EventCount("log_fail") = 2
    /\ EventCount("log_add") = 2
    /\ outcome[1][2] = "non200"
    /\ outcome[2][2] = "ok"

\* C9: a row that was started is run to its end: when the program leaves it,
\* its four fetches have all been made, once each, and no run that started a
\* row ends other than by reaching the end of its loop (stated for ordinary
\* row ranges).
C9_StartedRowsComplete ==
    OrdinaryRange =>
        /\ RowEnded => (EventCount("get") = 4 /\ Len(outcome) = 4)
        /\ (RunEnded /\ processed # <<>>) => (pc = "done" /\ processed = rows)

\* C10: after any sequence of runs, a row's composite file exists iff some run
\* had a successful direction for that row (stated for ordinary row ranges).
C10_CompositeIffEverSucceeded ==
    (OrdinaryRange /\ RunEnded) =>
        /\ \A p \in everOk : \E c \in composites : c.path = p
        /\ \A c \in composites : c.path \in everOk

====
